---------------------------- MODULE Spec2Model ----------------------------
(***************************************************************************)
(* Model of the log analysis engine of server.py: the line classifier      *)
(* (parse_level, parse_ts), the error predicate (is_errorish), the         *)
(* normalizer (normalize), the similarity scorer (similarity), the greedy  *)
(* clusterer (cluster_errors) and the histogram builder (analyze_levels).  *)
(*                                                                         *)
(* A line of text is a sequence of one-character strings.  The regular     *)
(* expressions of the source are operators on such sequences that compute  *)
(* what Python's re module computes for them on ASCII text (leftmost       *)
(* match, greedy repetition with backtracking, non-overlapping             *)
(* substitution).  A similarity score, a float in the source, is the exact *)
(* fraction [n, d]; the fractions met here have small denominators, so     *)
(* comparing them exactly agrees with comparing the rounded floats.        *)
(***************************************************************************)
EXTENDS Integers, Sequences, FiniteSets, TLC

VARIABLES
    tool,           \* the function called: analyze_levels, cluster_errors, normalize
    exists,         \* os.path.exists(log_path)
    file,           \* the physical lines of the file at log_path
    pc,             \* position in the called function
    lines,          \* local of both tools: read_lines(log_path)
    i,              \* number of loop iterations completed
    result,         \* the returned dict, or NoResult
    threshold,      \* cluster_errors parameter, a fraction
    top_k,          \* cluster_errors parameter
    examples_each,  \* cluster_errors parameter
    error_lines,    \* cluster_errors local
    clusters,       \* cluster_errors local: List[Cluster]
    assigned,       \* history: assigned[j] = cluster_id that absorbed error_lines[j]
    bin_minutes,    \* analyze_levels parameter
    level_counts,   \* analyze_levels local: Counter
    time_bins,      \* analyze_levels local: Counter
    binned,         \* history: binned[j] = the time_bins key lines[j] was counted under, or <<>>
    raw,            \* normalize: the argument
    once,           \* normalize(raw)
    twice           \* normalize(normalize(raw))

vars == <<tool, exists, file, pc, lines, i, result, threshold, top_k, examples_each,
          error_lines, clusters, assigned, bin_minutes, level_counts, time_bins,
          binned, raw, once, twice>>

-----------------------------------------------------------------------------
(* Characters *)

LowerSeq == <<"a","b","c","d","e","f","g","h","i","j","k","l","m","n","o","p","q","r","s","t","u","v","w","x","y","z">>

UpperSeq == <<"A","B","C","D","E","F","G","H","I","J","K","L","M","N","O","P","Q","R","S","T","U","V","W","X","Y","Z">>

DigitSeq == <<"0","1","2","3","4","5","6","7","8","9">>

Range(f) == {f[x] : x \in DOMAIN f}

IsDigit(c) == c \in Range(DigitSeq)

IsAlpha(c) == c \in Range(LowerSeq) \cup Range(UpperSeq)

\* \w
IsWord(c) == IsAlpha(c) \/ IsDigit(c) \/ c = "_"

\* \s
IsSpace(c) == c \in {" ", "\t"}

\* \S
IsNonSpace(c) == ~IsSpace(c)

\* [0-9a-fA-F]
IsHex(c) == IsDigit(c) \/ c \in {"a","b","c","d","e","f","A","B","C","D","E","F"}

\* [A-Za-z0-9._-]
IsPathChar(c) == IsAlpha(c) \/ IsDigit(c) \/ c \in {".", "_", "-"}

\* str.upper() and str.lower() on one ASCII character
ToUpper(c) == IF c \in Range(LowerSeq)
              THEN UpperSeq[CHOOSE k \in DOMAIN LowerSeq : LowerSeq[k] = c]
              ELSE c

ToLower(c) == IF c \in Range(UpperSeq)
              THEN LowerSeq[CHOOSE k \in DOMAIN UpperSeq : UpperSeq[k] = c]
              ELSE c

UpperStr(s) == [k \in 1..Len(s) |-> ToUpper(s[k])]

LowerStr(s) == [k \in 1..Len(s) |-> ToLower(s[k])]

DigitVal(c) == (CHOOSE k \in DOMAIN DigitSeq : DigitSeq[k] = c) - 1

Max(S) == CHOOSE x \in S : \A y \in S : y <= x

Min(S) == CHOOSE x \in S : \A y \in S : x <= y

-----------------------------------------------------------------------------
(* Regular-expression matching *)

WordAt(s, p) == p >= 1 /\ p <= Len(s) /\ IsWord(s[p])

\* \b between positions p and p+1 of s (p = 0: the start, p = Len(s): the end)
Boundary(s, p) == WordAt(s, p) # WordAt(s, p + 1)

\* the literal w at position p of s
LitAt(s, p, w) == /\ p + Len(w) - 1 <= Len(s)
                  /\ \A k \in 1..Len(w) : s[p + k - 1] = w[k]

\* the upper-case literal w at position p of s, ignoring case
LitAtIgnoreCase(s, p, w) == /\ p + Len(w) - 1 <= Len(s)
                            /\ \A k \in 1..Len(w) : ToUpper(s[p + k - 1]) = w[k]

\* ok[k] says whether character k is of the class repeated: the length of the
\* longest run of such characters that starts at p
Run(ok, p) == Max({r \in 0..(Len(ok) - p + 1) : \A k \in 0..(r - 1) : ok[p + k]})

Hexes(s) == [k \in 1..Len(s) |-> IsHex(s[k])]

Digits(s) == [k \in 1..Len(s) |-> IsDigit(s[k])]

NonSpaces(s) == [k \in 1..Len(s) |-> IsNonSpace(s[k])]

PathChars(s) == [k \in 1..Len(s) |-> IsPathChar(s[k])]

Spaces(s) == [k \in 1..Len(s) |-> IsSpace(s[k])]

\* str.find(w) >= 0
Contains(s, w) == \E p \in 1..(Len(s) - Len(w) + 1) : LitAt(s, p, w)

\* re.sub: ml[p] is the length of the match starting at p (0: none); matches are
\* taken left to right without overlap and each is replaced by tok
RECURSIVE SubFrom(_, _, _, _)
SubFrom(s, ml, tok, p) ==
    IF p > Len(s) THEN <<>>
    ELSE IF ml[p] > 0 THEN tok \o SubFrom(s, ml, tok, p + ml[p])
    ELSE <<s[p]>> \o SubFrom(s, ml, tok, p + 1)

\* \d{4}-\d{2}-\d{2}[ T]\d{2}:\d{2}:\d{2}, by character class
TS_SHAPE == <<"d","d","d","d","-","d","d","-","d","d","s","d","d",":","d","d",":","d","d">>

TsCharOk(c, cls) == CASE cls = "d" -> IsDigit(c)
                      [] cls = "s" -> c \in {" ", "T"}
                      [] OTHER -> c = cls

TS_RE(s, p) == IF /\ p + Len(TS_SHAPE) - 1 <= Len(s)
                  /\ \A k \in 1..Len(TS_SHAPE) : TsCharOk(s[p + k - 1], TS_SHAPE[k])
               THEN Len(TS_SHAPE) ELSE 0

\* the alternatives of LEVEL_RE, in the order the pattern tries them
LEVEL_TOKENS == << <<"I","N","F","O">>, <<"W","A","R","N">>,
                   <<"W","A","R","N","I","N","G">>, <<"E","R","R","O","R">>,
                   <<"F","A","T","A","L">>, <<"D","E","B","U","G">>,
                   <<"T","R","A","C","E">> >>

\* the alternatives of LEVEL_RE that match at p with a word boundary on both sides
LevelAlts(s, p) == {a \in DOMAIN LEVEL_TOKENS :
                       /\ Boundary(s, p - 1)
                       /\ LitAtIgnoreCase(s, p, LEVEL_TOKENS[a])
                       /\ Boundary(s, p + Len(LEVEL_TOKENS[a]) - 1)}

\* \b(INFO|WARN|WARNING|ERROR|FATAL|DEBUG|TRACE)\b, re.IGNORECASE
LEVEL_RE(s, p) == IF LevelAlts(s, p) = {} THEN 0
                  ELSE Len(LEVEL_TOKENS[Min(LevelAlts(s, p))])

\* \b0x[0-9a-fA-F]+\b
HEX_RE(s, p) ==
    IF Boundary(s, p - 1) /\ LitAt(s, p, <<"0","x">>)
    THEN LET ends == {r \in 1..Run(Hexes(s), p + 2) : Boundary(s, p + 1 + r)}
         IN  IF ends = {} THEN 0 ELSE 2 + Max(ends)
    ELSE 0

\* \b\d+\b
NUM_RE(s, p) ==
    IF Boundary(s, p - 1)
    THEN LET ends == {r \in 1..Run(Digits(s), p) : Boundary(s, p + r - 1)}
         IN  IF ends = {} THEN 0 ELSE Max(ends)
    ELSE 0

\* (https?://\S+)
URL_RE(s, p) ==
    LET scheme == IF LitAt(s, p, <<"h","t","t","p","s",":","/","/">>) THEN 8
                  ELSE IF LitAt(s, p, <<"h","t","t","p",":","/","/">>) THEN 7
                  ELSE 0
        rest == Run(NonSpaces(s), p + scheme)
    IN  IF scheme > 0 /\ rest > 0 THEN scheme + rest ELSE 0

\* (/[A-Za-z0-9._-]+)+
RECURSIVE PATH_RE(_, _)
PATH_RE(s, p) ==
    IF p <= Len(s) /\ s[p] = "/" /\ Run(PathChars(s), p + 1) > 0
    THEN 1 + Run(PathChars(s), p + 1) + PATH_RE(s, p + 1 + Run(PathChars(s), p + 1))
    ELSE 0

\* \s+
WS_RE(s, p) == Run(Spaces(s), p)

\* str.strip()
Strip(s) == LET keep == {p \in 1..Len(s) : IsNonSpace(s[p])}
            IN  IF keep = {} THEN <<>> ELSE SubSeq(s, Min(keep), Max(keep))

\* pattern.sub(tok, s), ml[p] being the length of the pattern's match at p
Sub(ml, tok, s) == SubFrom(s, ml, tok, 1)

\* pattern.search(s): the position of the leftmost match, 0 when there is none
Search(ml) == LET at == {p \in DOMAIN ml : ml[p] > 0}
              IN  IF at = {} THEN 0 ELSE Min(at)

\* the length of each pattern's match at every position of s
TsMatches(s) == [p \in 1..Len(s) |-> TS_RE(s, p)]

LevelMatches(s) == [p \in 1..Len(s) |-> LEVEL_RE(s, p)]

HexMatches(s) == [p \in 1..Len(s) |-> HEX_RE(s, p)]

NumMatches(s) == [p \in 1..Len(s) |-> NUM_RE(s, p)]

UrlMatches(s) == [p \in 1..Len(s) |-> URL_RE(s, p)]

PathMatches(s) == [p \in 1..Len(s) |-> PATH_RE(s, p)]

WsMatches(s) == [p \in 1..Len(s) |-> WS_RE(s, p)]

-----------------------------------------------------------------------------
(* Line classifier, error predicate, normalizer *)

\* Python's None; no text, timestamp or dict of the model equals it
None == <<>>

parse_level(line) ==
    LET p == Search(LevelMatches(line))
    IN  IF p = 0 THEN None ELSE UpperStr(SubSeq(line, p, p + LEVEL_RE(line, p) - 1))

\* the value of a run of decimal digits
RECURSIVE IntOf(_)
IntOf(ds) == IF ds = <<>> THEN 0
             ELSE 10 * IntOf(SubSeq(ds, 1, Len(ds) - 1)) + DigitVal(ds[Len(ds)])

IsLeap(y) == (y % 4 = 0 /\ y % 100 # 0) \/ y % 400 = 0

DaysInMonth(y, m) == IF m = 2 THEN (IF IsLeap(y) THEN 29 ELSE 28)
                     ELSE IF m \in {4, 6, 9, 11} THEN 30 ELSE 31

\* datetime.strptime(ts, "%Y-%m-%d %H:%M:%S") on a text of the shape TS_RE matches;
\* None stands for the ValueError
strptime(ts) ==
    LET t == [year |-> IntOf(SubSeq(ts, 1, 4)), month |-> IntOf(SubSeq(ts, 6, 7)),
              day |-> IntOf(SubSeq(ts, 9, 10)), hour |-> IntOf(SubSeq(ts, 12, 13)),
              minute |-> IntOf(SubSeq(ts, 15, 16)), second |-> IntOf(SubSeq(ts, 18, 19))]
    IN  IF /\ ts[11] = " "
           /\ t.year >= 1
           /\ t.month \in 1..12
           /\ t.day \in 1..DaysInMonth(t.year, t.month)
           /\ t.hour \in 0..23
           /\ t.minute \in 0..59
           /\ t.second \in 0..59
        THEN t ELSE None

parse_ts(line) ==
    LET p == Search(TsMatches(line))
    IN  IF p = 0 THEN None ELSE strptime(SubSeq(line, p, p + TS_RE(line, p) - 1))

\* "%0<w>d" % v
RECURSIVE Pad(_, _)
Pad(v, w) == IF w = 0 THEN <<>> ELSE Pad(v \div 10, w - 1) \o <<DigitSeq[(v % 10) + 1]>>

\* datetime.isoformat(sep=" ") of a datetime without microseconds
isoformat(t) == Pad(t.year, 4) \o <<"-">> \o Pad(t.month, 2) \o <<"-">> \o Pad(t.day, 2)
                \o <<" ">> \o Pad(t.hour, 2) \o <<":">> \o Pad(t.minute, 2)
                \o <<":">> \o Pad(t.second, 2)

\* minute_bucket that rounds to the nearest multiple of bin
minute_bucket_nearest(minute, bin) == ((minute + bin \div 2) \div bin) * bin

\* floor division, as Python's // on integers with a positive divisor
minute_bucket(minute, bin) == (minute \div bin) * bin

\* the time_bins key of a parsed timestamp: ts.replace(minute=..., second=0).isoformat(sep=" ")
bucket(ts, bin) == isoformat([ts EXCEPT !.minute = minute_bucket(ts.minute, bin), !.second = 0])


ERROR_HINTS == { <<"e","r","r","o","r">>, <<"e","x","c","e","p","t","i","o","n">>,
                 <<"t","r","a","c","e","b","a","c","k">>, <<"f","a","t","a","l">>,
                 <<"p","a","n","i","c">>, <<"f","a","i","l","e","d">>,
                 <<"f","a","i","l","u","r","e">>, <<"a","s","s","e","r","t">>,
                 <<"s","e","g","f","a","u","l","t">> }

is_errorish(line) ==
    \/ parse_level(line) \in { <<"E","R","R","O","R">>, <<"F","A","T","A","L">> }
    \/ \E h \in ERROR_HINTS : Contains(LowerStr(line), h)

\* line = TS_RE.sub("<TS>", line)
mask_ts(s) == Sub(TsMatches(s), <<"<","T","S",">">>, s)

\* line = LEVEL_RE.sub("<LEVEL>", line)
mask_level(s) == Sub(LevelMatches(s), <<"<","L","E","V","E","L",">">>, s)

\* line = re.sub(r"\b0x[0-9a-fA-F]+\b", "<HEX>", line)
mask_hex(s) == Sub(HexMatches(s), <<"<","H","E","X",">">>, s)

\* line = re.sub(r"\b\d+\b", "<NUM>", line)
mask_num(s) == Sub(NumMatches(s), <<"<","N","U","M",">">>, s)

\* line = re.sub(r"(https?://\S+)", "<URL>", line)
mask_url(s) == Sub(UrlMatches(s), <<"<","U","R","L",">">>, s)

\* line = re.sub(r"(/[A-Za-z0-9._-]+)+", "<PATH>", line)
mask_path(s) == Sub(PathMatches(s), <<"<","P","A","T","H",">">>, s)

\* line = re.sub(r"\s+", " ", line)
collapse_ws(s) == Sub(WsMatches(s), <<" ">>, s)

normalize(line) ==
    Strip(collapse_ws(mask_path(mask_url(mask_num(mask_hex(mask_level(mask_ts(line))))))))

-----------------------------------------------------------------------------
(* Similarity scorer: difflib.SequenceMatcher(None, a, b).ratio().  Indices *)
(* are 0-based and ranges half-open, as in difflib.  No element is junk:    *)
(* isjunk is None, and the automatic junk heuristic needs len(b) >= 200.    *)

\* the length of the common run of a and b that starts at a[x], b[y] and stays
\* inside a[x:ahi], b[y:bhi]
CommonRun(a, b, x, y, ahi, bhi) ==
    Max({k \in 0..(IF ahi - x < bhi - y THEN ahi - x ELSE bhi - y) :
            \A t \in 0..(k - 1) : a[x + t + 1] = b[y + t + 1]})

\* SequenceMatcher.find_longest_match: the longest block matching in a[alo:ahi] and
\* b[blo:bhi]; of those, the one starting earliest in a, then earliest in b
find_longest_match(a, b, alo, ahi, blo, bhi) ==
    LET run == [x \in alo..(ahi - 1), y \in blo..(bhi - 1) |->
                    CommonRun(a, b, x, y, ahi, bhi)]
        bestsize == IF DOMAIN run = {} THEN 0 ELSE Max({run[q] : q \in DOMAIN run})
        besti == Min({q[1] : q \in {r \in DOMAIN run : run[r] = bestsize}})
        bestj == Min({q[2] : q \in {r \in DOMAIN run : run[r] = bestsize /\ r[1] = besti}})
    IN  IF bestsize = 0 THEN <<alo, blo, 0>> ELSE <<besti, bestj, bestsize>>

\* SequenceMatcher.get_matching_blocks, summed: the total size of the matching blocks
RECURSIVE MatchTotal(_, _, _, _, _, _)
RECURSIVE AroundBlock(_, _, _, _, _, _, _)
MatchTotal(a, b, alo, ahi, blo, bhi) ==
    AroundBlock(a, b, find_longest_match(a, b, alo, ahi, blo, bhi), alo, ahi, blo, bhi)

\* the block m, and the blocks matched to its left and to its right
AroundBlock(a, b, m, alo, ahi, blo, bhi) ==
    IF m[3] = 0 THEN 0
    ELSE m[3]
         + (IF alo < m[1] /\ blo < m[2]
            THEN MatchTotal(a, b, alo, m[1], blo, m[2]) ELSE 0)
         + (IF m[1] + m[3] < ahi /\ m[2] + m[3] < bhi
            THEN MatchTotal(a, b, m[1] + m[3], ahi, m[2] + m[3], bhi) ELSE 0)

\* SequenceMatcher.ratio: 2.0 * matches / length, and 1.0 when both are empty
ratio(a, b) ==
    IF Len(a) + Len(b) > 0
    THEN [n |-> 2 * MatchTotal(a, b, 0, Len(a), 0, Len(b)), d |-> Len(a) + Len(b)]
    ELSE [n |-> 1, d |-> 1]

similarity(a, b) == ratio(a, b)

\* comparison of fractions with positive denominators
Gt(x, y) == x.n * y.d > y.n * x.d

Ge(x, y) == x.n * y.d >= y.n * x.d

-----------------------------------------------------------------------------
(* Inputs *)

\* the longest file given to cluster_errors
MaxLogLines == 4

\* the longest file given to analyze_levels
MaxHistLines == 3

\* the most atoms concatenated into an argument of normalize
MaxAtoms == 3

\* read_lines' default max_lines
MAX_LINES == 200000

\* the lines of the files given to cluster_errors:
\* "ERROR job", "ERROR db", "FATAL db", "ERROR db x", "panic", "INFO ok"
ClusterLines == {
    <<"E","R","R","O","R"," ","j","o","b">>,
    <<"E","R","R","O","R"," ","d","b">>,
    <<"F","A","T","A","L"," ","d","b">>,
    <<"E","R","R","O","R"," ","d","b"," ","x">>,
    <<"p","a","n","i","c">>,
    <<"I","N","F","O"," ","o","k">> }

\* the lines of the files given to analyze_levels
HistLines == {
    <<"2","0","2","6","-","0","1","-","0","1"," ","1","0",":","0","7",":","3","0"," ","E","R","R","O","R"," ","x">>,
    <<"2","0","2","6","-","0","1","-","0","1"," ","1","0",":","0","0",":","0","0"," ","I","N","F","O"," ","o","k">>,
    <<"2","0","2","4","-","0","2","-","2","9"," ","2","3",":","5","9",":","5","9"," ","w","a","r","n">>,
    <<"2","0","2","6","-","0","1","-","0","1","T","1","0",":","0","7",":","3","0"," ","D","E","B","U","G">>,
    <<"2","0","2","6","-","1","3","-","0","1"," ","1","0",":","0","7",":","3","0"," ","F","A","T","A","L">>,
    <<"n","o"," ","l","e","v","e","l"," ","o","r"," ","t","i","m","e","s","t","a","m","p"," ","h","e","r","e">>,
    <<"E","R","R","O","R"," ","t","h","e","n"," ","W","A","R","N">>,
    <<"2","0","2","6","-","0","2","-","2","9"," ","1","0",":","4","5",":","1","0">> }

\* the pieces an argument of normalize is concatenated from
NormAtoms == {
    <<"1","2">>,
    <<"h","t","t","p",":","/","/","h">>,
    <<"E","R","R","O","R">>,
    <<"0","x","1","f">>,
    <<"/","v","a","r">>,
    <<" ">>,
    <<"x">>,
    <<"2","0","2","6","-","0","1","-","0","1"," ","1","0",":","0","0",":","0","0">>,
    <<"f","a","i","l","e","d">> }

Thresholds == {[n |-> 0, d |-> 1], [n |-> 41, d |-> 50], [n |-> 1, d |-> 1], [n |-> 3, d |-> 2]}

TopKs == {0, 2, 10}

ExamplesEach == {0, 1, 3}

BinMinutes == {1, 5, 7, 60}

SeqsUpTo(S, n) == UNION {[1..k -> S] : k \in 0..n}

RECURSIVE Concat(_)
Concat(ss) == IF ss = <<>> THEN <<>> ELSE Head(ss) \o Concat(Tail(ss))

NormInputs == {Concat(ss) : ss \in SeqsUpTo(NormAtoms, MaxAtoms)}

\* a function with every value computed
Tabulated(f) == f @@ [x \in {} |-> x]

\* parse_level and parse_ts, tabulated over the lines given to analyze_levels
LevelTable == Tabulated([ln \in HistLines |-> parse_level(ln)])

TsTable == Tabulated([ln \in HistLines |-> parse_ts(ln)])

\* is_errorish and normalize, tabulated over the lines given to cluster_errors
ErrorishTable == Tabulated([ln \in ClusterLines |-> is_errorish(ln)])

TemplateTable == Tabulated([ln \in ClusterLines |-> normalize(ln)])

Templates == Range(TemplateTable)

\* similarity, tabulated over the templates of the lines given to cluster_errors
SimTable == Tabulated([q \in [1..2 -> Templates] |-> similarity(q[1], q[2])])

-----------------------------------------------------------------------------
(* State *)

NoResult == None

Idle == /\ lines = <<>> /\ i = 0 /\ result = NoResult

NoClusterState == /\ threshold = None /\ top_k = None /\ examples_each = None
                  /\ error_lines = <<>> /\ clusters = <<>> /\ assigned = <<>>

NoHistState == /\ bin_minutes = None /\ level_counts = <<>> /\ time_bins = <<>>
               /\ binned = <<>>

NoNormState == /\ raw = None /\ once = None /\ twice = None

\* a call of cluster_errors(log_path, threshold, top_k, examples_each)
InitCluster ==
    /\ tool = "cluster_errors"
    /\ pc = "start"
    /\ exists \in BOOLEAN
    /\ file \in (IF exists THEN SeqsUpTo(ClusterLines, MaxLogLines) ELSE {<<>>})
    /\ threshold \in Thresholds
    /\ top_k \in TopKs
    /\ examples_each \in ExamplesEach
    /\ error_lines = <<>> /\ clusters = <<>> /\ assigned = <<>>
    /\ Idle /\ NoHistState /\ NoNormState

\* a call of analyze_levels(log_path, bin_minutes)
InitLevels ==
    /\ tool = "analyze_levels"
    /\ pc = "start"
    /\ exists \in BOOLEAN
    /\ file \in (IF exists THEN SeqsUpTo(HistLines, MaxHistLines) ELSE {<<>>})
    /\ bin_minutes \in BinMinutes
    /\ level_counts = <<>> /\ time_bins = <<>> /\ binned = <<>>
    /\ Idle /\ NoClusterState /\ NoNormState

\* a call of normalize(raw)
InitNormalize ==
    /\ tool = "normalize"
    /\ pc = "start"
    /\ exists = FALSE /\ file = <<>>
    /\ raw \in NormInputs
    /\ once = None /\ twice = None
    /\ Idle /\ NoClusterState /\ NoHistState

Init == InitCluster \/ InitLevels

clusterVars == <<threshold, top_k, examples_each, error_lines, clusters, assigned>>

histVars == <<bin_minutes, level_counts, time_bins, binned>>

normVars == <<raw, once, twice>>

-----------------------------------------------------------------------------
(* read_lines *)

\* [line.rstrip("\n") for _, line in zip(range(max_lines), f)]
read_lines(f, max_lines) == SubSeq(f, 1, IF Len(f) < max_lines THEN Len(f) ELSE max_lines)

\* [ln for ln in lines if is_errorish(ln)]
RECURSIVE errorish_only(_)
errorish_only(ls) ==
    IF ls = <<>> THEN <<>>
    ELSE (IF ErrorishTable[Head(ls)] THEN <<Head(ls)>> ELSE <<>>)
         \o errorish_only(Tail(ls))

-----------------------------------------------------------------------------
(* cluster_errors *)

\* best_i = None; best_sc = 0.0 (best_i is 0 for None, else a 1-based position)
no_match == [best_i |-> 0, best_sc |-> [n |-> 0, d |-> 1]]

\* if sc > best_sc: best_sc = sc; best_i = i
keep_better(best, j, sc) == IF Gt(sc, best.best_sc) THEN [best_i |-> j, best_sc |-> sc]
                            ELSE best

\* the inner loop of cluster_errors over enumerate(clusters), from position j on
RECURSIVE scan_clusters(_, _, _, _)
scan_clusters(n, cl, j, best) ==
    IF j > Len(cl) THEN best
    ELSE scan_clusters(n, cl, j + 1, keep_better(best, j, SimTable[<<n, cl[j].rep>>]))

\* best_match with the scan started one cluster too late
best_match_skip_first(n, cl) == scan_clusters(n, cl, 2, no_match)

\* the best cluster for template n and its score
best_match(n, cl) == scan_clusters(n, cl, 1, no_match)

\* joins with > in place of >=
joins_strict(b, thr) == b.best_i # 0 /\ Gt(b.best_sc, thr)

\* whether the line joins clusters[best_i]
joins(b, thr) == b.best_i # 0 /\ Ge(b.best_sc, thr)

\* c.count += 1; if len(c.examples) < examples_each: c.examples.append(ln)
absorb(c, ln, cap) == [c EXCEPT !.count = @ + 1,
                                !.examples = IF Len(@) < cap THEN Append(@, ln) ELSE @]

\* Cluster(cluster_id=len(clusters) + 1, rep=n, count=1, examples=[ln])
new_cluster(cl, n, ln) == [cluster_id |-> Len(cl) + 1, rep |-> n, count |-> 1,
                           examples |-> <<ln>>]

\* if best_i is not None and best_sc >= threshold: ... else: clusters.append(...)
join_or_create(cl, ln, n, b, thr, cap) ==
    IF joins(b, thr)
    THEN [cl EXCEPT ![b.best_i] = absorb(@, ln, cap)]
    ELSE Append(cl, new_cluster(cl, n, ln))

\* n = normalize(ln), then the inner loop and the decision
place(cl, ln, n, thr, cap) == join_or_create(cl, ln, n, best_match(n, cl), thr, cap)

\* the body of the loop over error_lines: the clusters after line ln
fold_line(cl, ln, thr, cap) == place(cl, ln, TemplateTable[ln], thr, cap)

\* the cluster_id of the cluster whose count one iteration raised, or that it created
absorbed_by(before, after) ==
    IF Len(after) > Len(before) THEN after[Len(after)].cluster_id
    ELSE before[CHOOSE j \in DOMAIN before : after[j].count # before[j].count].cluster_id

\* insert_by_count that puts c in front of the clusters of equal count
insert_by_count_unstable(sorted, c) ==
    LET k == Cardinality({j \in 1..Len(sorted) : sorted[j].count > c.count})
    IN  SubSeq(sorted, 1, k) \o <<c>> \o SubSeq(sorted, k + 1, Len(sorted))

\* list.sort(key=lambda c: c.count, reverse=True): a stable sort, by insertion
insert_by_count(sorted, c) ==
    LET k == Cardinality({j \in 1..Len(sorted) : sorted[j].count >= c.count})
    IN  SubSeq(sorted, 1, k) \o <<c>> \o SubSeq(sorted, k + 1, Len(sorted))

RECURSIVE sort_by_count(_)
sort_by_count(cl) ==
    IF cl = <<>> THEN <<>>
    ELSE insert_by_count(sort_by_count(SubSeq(cl, 1, Len(cl) - 1)), cl[Len(cl)])

\* s[:k]
slice_to(s, k) == IF k >= 0 THEN SubSeq(s, 1, IF k < Len(s) THEN k ELSE Len(s))
                  ELSE SubSeq(s, 1, IF Len(s) + k > 0 THEN Len(s) + k ELSE 0)

\* raise FileNotFoundError
ClusterMissing ==
    /\ tool = "cluster_errors" /\ pc = "start"
    /\ ~exists
    /\ pc' = "FileNotFoundError"
    /\ UNCHANGED <<tool, exists, file, lines, i, result, clusterVars, histVars, normVars>>

\* lines = read_lines(log_path); error_lines = [...]; clusters = []
ClusterRead ==
    /\ tool = "cluster_errors" /\ pc = "start"
    /\ exists
    /\ lines' = read_lines(file, MAX_LINES)
    /\ error_lines' = errorish_only(lines')
    /\ clusters' = <<>>
    /\ pc' = "loop"
    /\ UNCHANGED <<tool, exists, file, i, result, threshold, top_k, examples_each,
                   assigned, histVars, normVars>>

\* one iteration of: for ln in error_lines
ClusterLine ==
    /\ tool = "cluster_errors" /\ pc = "loop"
    /\ i < Len(error_lines)
    /\ clusters' = fold_line(clusters, error_lines[i + 1], threshold, examples_each)
    /\ assigned' = Append(assigned, absorbed_by(clusters, clusters'))
    /\ i' = i + 1
    /\ UNCHANGED <<tool, exists, file, pc, lines, result, threshold, top_k,
                   examples_each, error_lines, histVars, normVars>>

\* clusters.sort(...); return {...}
ClusterReturn ==
    /\ tool = "cluster_errors" /\ pc = "loop"
    /\ i = Len(error_lines)
    /\ clusters' = sort_by_count(clusters)
    /\ result' = [extracted_errorish |-> Len(error_lines),
                  threshold |-> threshold,
                  clusters |-> slice_to(clusters', top_k)]
    /\ pc' = "returned"
    /\ UNCHANGED <<tool, exists, file, lines, i, threshold, top_k, examples_each,
                   error_lines, assigned, histVars, normVars>>

-----------------------------------------------------------------------------
(* analyze_levels *)

\* Counter[k] += 1
Inc(counter, k) == IF k \in DOMAIN counter THEN [counter EXCEPT ![k] = @ + 1]
                   ELSE counter @@ (k :> 1)

\* count_level that counts every level token of the line, not the first alone
RECURSIVE count_every_level(_, _)
count_every_level(counts, line) ==
    LET p == Search(LevelMatches(line))
    IN  IF p = 0 THEN counts
        ELSE count_every_level(
                 Inc(counts, UpperStr(SubSeq(line, p, p + LEVEL_RE(line, p) - 1))),
                 SubSeq(line, p + LEVEL_RE(line, p), Len(line)))

\* if lvl: level_counts[lvl] += 1
add_level(counts, lvl) == IF lvl # None THEN Inc(counts, lvl) ELSE counts

\* the level_counts after one line
count_level(counts, line) == add_level(counts, LevelTable[line])

\* the time_bins key of a line whose timestamp parsed to ts, <<>> when ts is None
key_of(ts, bin) == IF ts # None THEN bucket(ts, bin) ELSE <<>>

\* if ts: time_bins[bucket] += 1
add_bin(bins, key) == IF key # <<>> THEN Inc(bins, key) ELSE bins

\* the time_bins key one line is counted under, <<>> when it has no parseable timestamp
bin_key(line, bin) == key_of(TsTable[line], bin)

\* len(lines)
total_lines(ls) == Len(ls)

\* raise FileNotFoundError
LevelsMissing ==
    /\ tool = "analyze_levels" /\ pc = "start"
    /\ ~exists
    /\ pc' = "FileNotFoundError"
    /\ UNCHANGED <<tool, exists, file, lines, i, result, clusterVars, histVars, normVars>>

\* LevelsRead without the os.path.exists check in front of it
LevelsReadUnchecked ==
    /\ tool = "analyze_levels" /\ pc = "start"
    /\ lines' = read_lines(file, MAX_LINES)
    /\ level_counts' = <<>>
    /\ time_bins' = <<>>
    /\ pc' = "loop"
    /\ UNCHANGED <<tool, exists, file, i, result, bin_minutes, binned, clusterVars,
                   normVars>>

\* lines = read_lines(log_path); level_counts = Counter(); time_bins = Counter()
LevelsRead ==
    /\ tool = "analyze_levels" /\ pc = "start"
    /\ exists
    /\ lines' = read_lines(file, MAX_LINES)
    /\ level_counts' = <<>>
    /\ time_bins' = <<>>
    /\ pc' = "loop"
    /\ UNCHANGED <<tool, exists, file, i, result, bin_minutes, binned, clusterVars,
                   normVars>>

\* one iteration of: for line in lines
LevelsLine ==
    /\ tool = "analyze_levels" /\ pc = "loop"
    /\ i < Len(lines)
    /\ level_counts' = count_level(level_counts, lines[i + 1])
    /\ binned' = Append(binned, bin_key(lines[i + 1], bin_minutes))
    /\ time_bins' = add_bin(time_bins, binned'[i + 1])
    /\ i' = i + 1
    /\ UNCHANGED <<tool, exists, file, pc, lines, result, bin_minutes, clusterVars,
                   normVars>>

\* return {...}
LevelsReturn ==
    /\ tool = "analyze_levels" /\ pc = "loop"
    /\ i = Len(lines)
    /\ result' = [total_lines |-> total_lines(lines),
                  level_counts |-> level_counts,
                  time_bins |-> time_bins,
                  bin_minutes |-> bin_minutes]
    /\ pc' = "returned"
    /\ UNCHANGED <<tool, exists, file, lines, i, clusterVars, histVars, normVars>>

-----------------------------------------------------------------------------
(* normalize, applied once and then to its own result *)

NormalizeOnce ==
    /\ tool = "normalize" /\ pc = "start"
    /\ once' = normalize(raw)
    /\ pc' = "once"
    /\ UNCHANGED <<tool, exists, file, lines, i, result, raw, twice, clusterVars,
                   histVars>>

NormalizeTwice ==
    /\ tool = "normalize" /\ pc = "once"
    /\ twice' = normalize(once)
    /\ pc' = "twice"
    /\ UNCHANGED <<tool, exists, file, lines, i, result, raw, once, clusterVars,
                   histVars>>

-----------------------------------------------------------------------------
(* Specifications *)

Next == \/ ClusterMissing \/ ClusterRead \/ ClusterLine \/ ClusterReturn
        \/ LevelsMissing \/ LevelsRead \/ LevelsLine \/ LevelsReturn

Spec == Init /\ [][Next]_vars

NextNormalize == NormalizeOnce \/ NormalizeTwice

SpecNormalize == InitNormalize /\ [][NextNormalize]_vars

-----------------------------------------------------------------------------
(* What the history variables say about a cluster_errors pass *)

InCluster == tool = "cluster_errors"

InLevels == tool = "analyze_levels"

Returned == pc = "returned"

One == [n |-> 1, d |-> 1]

Zero == [n |-> 0, d |-> 1]

\* the cluster_ids handed out so far
Ids == Range(assigned)

\* the position in error_lines of the line that created cluster c
CreatedAt(c) == Min({m \in 1..Len(assigned) : assigned[m] = c})

\* the cluster with cluster_id c, wherever the final sort has put it
ClusterById(c) == CHOOSE x \in Range(clusters) : x.cluster_id = c

\* the first m error lines that went to cluster c, in arrival order
RECURSIVE Members(_, _)
Members(c, m) == IF m = 0 THEN <<>>
                 ELSE Members(c, m - 1) \o
                      (IF assigned[m] = c THEN <<error_lines[m]>> ELSE <<>>)

TemplateOf(ln) == TemplateTable[ln]

Sim(a, b) == SimTable[<<a, b>>]

\* the clusters that existed when error_lines[j] arrived
Prior(j) == {c \in Ids : CreatedAt(c) < j}

\* a ranks before b in the returned order
RanksBefore(a, b) == \/ a.count > b.count
                     \/ a.count = b.count /\ a.cluster_id < b.cluster_id

-----------------------------------------------------------------------------
(* C1 *)

\* C1, as stated: all occurrences of one identical raw line are counted in a
\* single cluster, whatever the threshold and whatever is processed between them.
C1_DuplicatesInOneCluster ==
    InCluster =>
        \A j, k \in 1..Len(assigned) :
            error_lines[j] = error_lines[k] => assigned[j] = assigned[k]

\* C1, amended: for a threshold of at most 1, two occurrences of the same raw
\* line are counted in the same cluster unless a cluster created between them is
\* strictly more similar to the line's template than the cluster that absorbed
\* the earlier occurrence.
C1_DuplicatesStayUnlessCloser ==
    (InCluster /\ Ge(One, threshold)) =>
        \A j, k \in 1..Len(assigned) :
            (/\ j < k
             /\ error_lines[j] = error_lines[k]
             /\ \A c \in Ids :
                    (j < CreatedAt(c) /\ CreatedAt(c) < k) =>
                        ~Gt(Sim(TemplateOf(error_lines[j]), ClusterById(c).rep),
                            Sim(TemplateOf(error_lines[j]), ClusterById(assigned[j]).rep)))
            => assigned[j] = assigned[k]

\* a line joined a cluster, a new cluster was created, and the line's second
\* occurrence joined the same cluster again
C1_Witness ==
    /\ InCluster /\ Ge(One, threshold)
    /\ \E j, k \in 1..Len(assigned) :
          /\ j < k
          /\ error_lines[j] = error_lines[k]
          /\ CreatedAt(assigned[j]) < j
          /\ \E c \in Ids : j < CreatedAt(c) /\ CreatedAt(c) < k
          /\ assigned[j] = assigned[k]

-----------------------------------------------------------------------------
(* C2 *)

\* C2: the returned clusters are in non-increasing order of count, equal counts
\* in creation order, and they are the first top_k clusters of that order.
C2_SortedStableTopK ==
    (InCluster /\ Returned) =>
        LET R == result.clusters
        IN  /\ \A a, b \in DOMAIN R : a < b => RanksBefore(R[a], R[b])
            /\ Len(R) = (IF top_k < Cardinality(Ids) THEN top_k ELSE Cardinality(Ids))
            /\ \A a \in DOMAIN R :
                  /\ R[a].cluster_id \in Ids
                  /\ R[a].count = Len(Members(R[a].cluster_id, Len(assigned)))
            /\ \A c \in Ids :
                  (\A a \in DOMAIN R : R[a].cluster_id # c) =>
                      \A a \in DOMAIN R :
                          RanksBefore(R[a], [count |-> Len(Members(c, Len(assigned))),
                                             cluster_id |-> c])

\* the sort moved a later cluster in front of an earlier one, and top_k cut off a
\* cluster whose count ties with a returned one
C2_Witness ==
    /\ InCluster /\ Returned
    /\ \E a, b \in DOMAIN result.clusters :
          a < b /\ result.clusters[a].cluster_id > result.clusters[b].cluster_id
    /\ \E c \in Ids, a \in DOMAIN result.clusters :
          /\ \A b \in DOMAIN result.clusters : result.clusters[b].cluster_id # c
          /\ result.clusters[a].count = Len(Members(c, Len(assigned)))

-----------------------------------------------------------------------------
(* C3 *)

DistinctTemplates == {TemplateOf(error_lines[j]) : j \in 1..Len(error_lines)}

NoTwoClustersShareRep ==
    \A a, b \in DOMAIN clusters : clusters[a].rep = clusters[b].rep => a = b

AtMostTopKAndTemplates ==
    Returned =>
        /\ Len(result.clusters) <= top_k
        /\ Len(result.clusters) <= Cardinality(DistinctTemplates)

\* C3, as stated: for every parameter choice at most min(top_k, distinct templates)
\* clusters are returned, and no two clusters are created with the same rep.
C3_AtMostDistinctTemplates ==
    InCluster => (NoTwoClustersShareRep /\ AtMostTopKAndTemplates)

\* C3, amended: the same, for every threshold of at most 1.
C3_AtMostDistinctTemplatesUpToOne ==
    (InCluster /\ Ge(One, threshold)) => (NoTwoClustersShareRep /\ AtMostTopKAndTemplates)

\* lines with equal templates arrived, and as many clusters were returned as
\* there are distinct templates
C3_Witness ==
    /\ InCluster /\ Returned /\ Ge(One, threshold)
    /\ Cardinality(DistinctTemplates) < Len(error_lines)
    /\ Cardinality(DistinctTemplates) > 1
    /\ Len(result.clusters) = Cardinality(DistinctTemplates)

-----------------------------------------------------------------------------
(* C4 *)

\* C4: every cluster's examples are the first lines assigned to it, at most
\* examples_each of them, and count is the number of lines assigned to it:
\* len(examples) = min(count, examples_each).
C4_ExamplesAreFirstUpToCap ==
    InCluster =>
        \A x \in DOMAIN clusters :
            LET c == clusters[x]
                all == Members(c.cluster_id, Len(assigned))
            IN  /\ c.count = Len(all)
                /\ Len(c.examples) <= examples_each
                /\ Len(c.examples) = (IF c.count < examples_each THEN c.count
                                      ELSE examples_each)
                /\ c.examples = SubSeq(all, 1, Len(c.examples))

-----------------------------------------------------------------------------
(* C5 *)

\* C5: with threshold 0 every error-ish line joins the first cluster: a pass over
\* a non-empty sequence ends with one cluster, cluster_id 1, count = extracted_errorish.
C5_ThresholdZeroOneCluster ==
    (InCluster /\ Returned /\ threshold = Zero /\ Len(error_lines) > 0) =>
        /\ Len(clusters) = 1
        /\ clusters[1].cluster_id = 1
        /\ clusters[1].count = result.extracted_errorish

-----------------------------------------------------------------------------
(* C6 *)

\* C6: when log_path does not exist, both tools fail with FileNotFoundError before
\* reading a line or building a counter or cluster, and never return a result.
C6_MissingFileFails ==
    ~exists =>
        /\ pc \in {"start", "FileNotFoundError"}
        /\ pc = "start" => ENABLED Next
        /\ result = NoResult
        /\ lines = <<>> /\ i = 0
        /\ error_lines = <<>> /\ clusters = <<>> /\ assigned = <<>>
        /\ level_counts = <<>> /\ time_bins = <<>> /\ binned = <<>>

\* analyze_levels has failed on a missing file
C6_Witness == InLevels /\ ~exists /\ pc = "FileNotFoundError"

-----------------------------------------------------------------------------
(* C7 *)

\* the text of the first timestamp-shaped match in a line that has one
TsText(line) == SubSeq(line, Search(TsMatches(line)), Search(TsMatches(line)) + 18)

\* the minute written in a timestamp text or time_bins key
MinuteOf(text) == IntOf(SubSeq(text, 15, 16))

\* key is text with its minute floored to a multiple of bin and its seconds zeroed
IsBucketOf(key, text, bin) ==
    /\ Len(key) = 19
    /\ SubSeq(key, 1, 14) = SubSeq(text, 1, 14)
    /\ IsDigit(key[15]) /\ IsDigit(key[16])
    /\ MinuteOf(key) = MinuteOf(text) - (MinuteOf(text) % bin)
    /\ MinuteOf(key) \in 0..59
    /\ MinuteOf(key) <= MinuteOf(text)
    /\ SubSeq(key, 17, 19) = <<":","0","0">>

\* C7: every line with a parseable timestamp is counted under the key that is its
\* timestamp with the minute floored to a multiple of bin_minutes and the seconds
\* zeroed (bin_minutes = 5: 10:07:30 -> 10:05:00, 10:00:00 -> 10:00:00); a line
\* without a parseable timestamp adds nothing to time_bins.
C7_BucketIsFlooredMinute ==
    InLevels =>
        /\ \A j \in 1..Len(binned) :
              IF TsTable[lines[j]] = None THEN binned[j] = <<>>
              ELSE IsBucketOf(binned[j], TsText(lines[j]), bin_minutes)
        /\ DOMAIN time_bins = Range(binned) \ {<<>>}
        /\ \A key \in DOMAIN time_bins :
              time_bins[key] = Cardinality({j \in 1..Len(binned) : binned[j] = key})
        /\ \A j \in 1..Len(binned) :
              (/\ bin_minutes = 5
               /\ Len(lines[j]) >= 19
               /\ SubSeq(lines[j], 1, 19) = <<"2","0","2","6","-","0","1","-","0","1"," ","1","0",":","0","7",":","3","0">>)
              => binned[j] = <<"2","0","2","6","-","0","1","-","0","1"," ","1","0",":","0","5",":","0","0">>
        /\ \A j \in 1..Len(binned) :
              (/\ bin_minutes = 5
               /\ Len(lines[j]) >= 19
               /\ SubSeq(lines[j], 1, 19) = <<"2","0","2","6","-","0","1","-","0","1"," ","1","0",":","0","0",":","0","0">>)
              => binned[j] = <<"2","0","2","6","-","0","1","-","0","1"," ","1","0",":","0","0",":","0","0">>

\* with a bin size that does not divide 60, a line stamped at minute 59 was counted
\* under minute 56, and a line with an unparseable timestamp was counted nowhere
C7_Witness ==
    /\ InLevels /\ Returned /\ bin_minutes = 7
    /\ \E j \in 1..Len(binned) :
          /\ binned[j] # <<>>
          /\ MinuteOf(TsText(lines[j])) = 59
          /\ MinuteOf(binned[j]) = 56
          /\ result.time_bins[binned[j]] >= 1
    /\ \E j \in 1..Len(binned) : Search(TsMatches(lines[j])) > 0 /\ binned[j] = <<>>

-----------------------------------------------------------------------------
(* C8 *)

RECURSIVE SumOver(_, _)
SumOver(counter, keys) ==
    IF keys = {} THEN 0
    ELSE LET k == CHOOSE x \in keys : TRUE
         IN  counter[k] + SumOver(counter, keys \ {k})

\* sum(counter.values())
Sum(counter) == SumOver(counter, DOMAIN counter)

\* the line carries a level token as a whole word, in any case
HasLevelToken(line) ==
    \E p \in 1..Len(line), a \in DOMAIN LEVEL_TOKENS :
        /\ LitAtIgnoreCase(line, p, LEVEL_TOKENS[a])
        /\ Boundary(line, p - 1)
        /\ Boundary(line, p + Len(LEVEL_TOKENS[a]) - 1)

\* the lines of the input files that carry a level token
LevelLines == {ln \in HistLines : HasLevelToken(ln)}

\* C8: total_lines is the number of lines read, whatever their content; each line
\* adds at most 1 to level_counts, so sum(level_counts.values()) <= total_lines,
\* with equality only if every line carries a level token.
C8_LevelSumAtMostTotalLines ==
    InLevels =>
        /\ Sum(level_counts) = Cardinality({j \in 1..i : lines[j] \in LevelLines})
        /\ Sum(level_counts) <= i
        /\ Returned =>
              /\ result.total_lines = Len(file)
              /\ Sum(result.level_counts) <= result.total_lines
              /\ Sum(result.level_counts) = result.total_lines
                    => \A j \in 1..Len(file) : file[j] \in LevelLines

\* a file with a line carrying two level tokens and a line carrying none was
\* counted: the sum is below total_lines
C8_Witness ==
    /\ InLevels /\ Returned
    /\ result.total_lines = 3
    /\ Sum(result.level_counts) = 2
    /\ \E j \in 1..Len(file) :
          file[j] = <<"E","R","R","O","R"," ","t","h","e","n"," ","W","A","R","N">>
    /\ \E j \in 1..Len(file) : file[j] \notin LevelLines

-----------------------------------------------------------------------------
(* C9 *)

\* C9: normalize is idempotent: normalize(normalize(x)) = normalize(x).
C9_NormalizeIdempotent == (tool = "normalize" /\ pc = "twice") => twice = once

-----------------------------------------------------------------------------
(* C10 *)

\* the rep a cluster was created with
RepOf(c) == TemplateOf(error_lines[CreatedAt(c)])

\* the cluster of S most similar to template n, the earliest-created on ties
MostSimilar(n, S) ==
    CHOOSE c \in S : \A e \in S :
        \/ Gt(Sim(n, RepOf(c)), Sim(n, RepOf(e)))
        \/ (~Gt(Sim(n, RepOf(e)), Sim(n, RepOf(c))) /\ c <= e)

\* C10: every cluster's rep is the template of the line that created it, whatever
\* came later; every line joins the most similar of the clusters existing when it
\* arrives (the earliest-created on ties) exactly when that similarity is >=
\* threshold, and creates a cluster otherwise.
C10_FixedRepsDecideJoin ==
    InCluster =>
        /\ \A c \in Ids :
              /\ ClusterById(c).rep = RepOf(c)
              /\ ClusterById(c).rep = TemplateOf(ClusterById(c).examples[1])
        /\ \A j \in 1..Len(assigned) :
              LET n == TemplateOf(error_lines[j])
              IN  /\ (assigned[j] \in Prior(j))
                        <=> (/\ Prior(j) # {}
                             /\ Ge(Sim(n, RepOf(MostSimilar(n, Prior(j)))), threshold))
                  /\ assigned[j] \in Prior(j) => assigned[j] = MostSimilar(n, Prior(j))
                  /\ assigned[j] \notin Prior(j) => assigned[j] = Cardinality(Prior(j)) + 1

=============================================================================
